---------------------------- MODULE Spec2Model ----------------------------
(***************************************************************************)
(* Layered partial configuration (partial_config).                         *)
(*                                                                         *)
(* The state machines below share one set of variables:                    *)
(*   Spec    - a chain  base.source(S1)...source(Sn).build()  over the     *)
(*             Partial Value that #[derive(HasPartial)] generates;         *)
(*   SpecEnv - one call of env::extract(candidates), one loop iteration    *)
(*             per step, against a fixed process environment.              *)
(*   SpecEnvSource - a chain that takes the EnvVarSource generated by      *)
(*             #[derive(EnvSourced)], its to_partial one field at a time;  *)
(*   SpecConfiguration - the chains of tests/config.rs over Configuration. *)
(***************************************************************************)
EXTENDS Naturals, Sequences, FiniteSets, TLC

VARIABLES
    pc,          \* position of the chain: "chain" | "failed" | "built"
    base,        \* the Partial Value the chain started from
    chain,       \* the Partial Values folded in so far, oldest first
    acc,         \* the accumulated Partial Value (`self` of the next call)
    result,      \* None, or Some(what build / a failed source returned)
    decl,        \* the struct the derive macros were applied to
    given,       \* None, or Some(the source handed to the last source call)
    fidx,        \* generated to_partial: index of the field being resolved
    sofar,       \* generated to_partial: the fields resolved so far
    diag,        \* diagnostics emitted so far, oldest first
    env,         \* the process environment: variable name -> std::env::var
    candidates,  \* extract: the slice of candidate variable names
    pos,         \* extract: index of the candidate the loop is at
    found,       \* extract: None or Some(<<candidate, value>>)
    ret,         \* extract: None, or Some(the Result returned)
    epc,         \* extract: "idle" | "loop" | "done"
    reads        \* the names handed to std::env::var so far, oldest first

vars == <<pc, base, chain, acc, result, decl, given, fidx, sofar, diag,
          env, candidates, pos, found, ret, epc, reads>>

layerVars == <<pc, base, chain, acc, result, decl, given, fidx, sofar>>
envVars == <<env, candidates, pos, found, ret, epc, reads>>

-----------------------------------------------------------------------------
(* Bounds of the model.                                                    *)

\* most source(...) calls in one chain
MaxChain == 2
\* longest candidate slice handed to extract
MaxAliases == 3

-----------------------------------------------------------------------------
(* Rust's Option and Result.                                               *)

None == <<>>
Some(v) == <<v>>
is_some(o) == o # None
unwrap(o) == o[1]

\* Option::or: `a.or(b)` is a when a is Some, b otherwise
or(a, b) == IF is_some(a) THEN a ELSE b

Ok(v) == [ok |-> TRUE, val |-> v]
Err(e) == [ok |-> FALSE, err |-> e]

Last(s) == s[Len(s)]
Range(s) == {s[i] : i \in 1..Len(s)}

-----------------------------------------------------------------------------
(* The Target: struct Conf of tests/config.rs, as the derive macro sees    *)
(* it: named fields in declaration order, each with its syn::Type.         *)

TypePath(segments, args) == [kind |-> "Path", segments |-> segments, args |-> args]

TypeReference(elem) == [kind |-> "Reference", elem |-> elem]

\* struct Conf of the tests: each field with its type and its env attributes
Conf ==
    << [ident |-> "str1",   ty |-> TypePath(<<"String">>, <<>>),
        attrs |-> <<<<"THING1", "THING2">>, <<"THING3">>>>],
       [ident |-> "obj2",   ty |-> TypePath(<<"usize">>, <<>>),
        attrs |-> <<<<"THING3">>>>],
       [ident |-> "option", ty |-> TypePath(<<"Option">>, <<TypePath(<<"u64">>, <<>>)>>),
        attrs |-> <<<<"THING4">>>>] >>

\* struct Configuration of the tests
Configuration ==
    << [ident |-> "str1",           ty |-> TypeReference(TypePath(<<"str">>, <<>>))],
       [ident |-> "port",           ty |-> TypePath(<<"u64">>, <<>>)],
       [ident |-> "height",         ty |-> TypePath(<<"Height">>, <<>>)],
       [ident |-> "custom_struct",  ty |-> TypePath(<<"Str1OnlySource">>, <<>>)],
       [ident |-> "optional_field", ty |-> TypePath(<<"Option">>, <<TypePath(<<"u64">>, <<>>)>>)] >>

\* pub type Height = Option<u64>: what the compiler, not the macro, takes
\* the type for
Aliased(ty) ==
    IF ty.kind = "Path" /\ ty.segments = <<"Height">>
    THEN TypePath(<<"Option">>, <<TypePath(<<"u64">>, <<>>)>>)
    ELSE ty

\* is_option: the type is a path whose last segment is the identifier Option
is_option(ty) ==
    /\ ty.kind = "Path"
    /\ Len(ty.segments) > 0
    /\ Last(ty.segments) = "Option"

\* extract_option_generic: the first generic argument of the last segment
extract_option_generic(ty) == ty.args[1]

\* The values a type has in the model; the first listed is Default::default().
RECURSIVE ValuesOf(_)
ValuesOf(ty) ==
    IF ty.kind = "Reference" THEN ValuesOf(ty.elem)
    ELSE IF Aliased(ty) # ty THEN ValuesOf(Aliased(ty))
    ELSE CASE Last(ty.segments) \in {"String", "str"} -> {"", "X"}
           [] Last(ty.segments) = "Option" ->
                {<<>>} \cup {<<v>> : v \in ValuesOf(ty.args[1])}
           [] Last(ty.segments) = "Str1OnlySource" -> {"Str1OnlySource"}
           [] OTHER -> {0, 1}

RECURSIVE DefaultOf(_)
DefaultOf(ty) ==
    IF ty.kind = "Reference" THEN DefaultOf(ty.elem)
    ELSE IF Aliased(ty) # ty THEN DefaultOf(Aliased(ty))
    ELSE CASE Last(ty.segments) = "Option" -> <<>>
           [] Last(ty.segments) \in {"String", "str"} -> ""
           [] Last(ty.segments) = "Str1OnlySource" -> "Str1OnlySource"
           [] OTHER -> 0

\* has_partial: fields.into_iter().partition(|field| is_option(&field.ty))
IsOptionalField(field) == is_option(field.ty)
IsRequiredField(field) == ~is_option(field.ty)
optional_fields(fields) == SelectSeq(fields, IsOptionalField)
required_fields(fields) == SelectSeq(fields, IsRequiredField)

Idents(fields) == [i \in 1..Len(fields) |-> fields[i].ident]

opt_fields(fields) == Idents(optional_fields(fields))
req_fields(fields) == Idents(required_fields(fields))
\* a derive that lists the required fields first
all_fields_required_first(fields) == req_fields(fields) \o opt_fields(fields)

\* impl_partial: all_fields = opt_fields chained with req_fields
all_fields(fields) == opt_fields(fields) \o req_fields(fields)

\* The type under the Option of the Partial Value's field: a required field T
\* becomes Option<T>, an already-optional Option<T> stays Option<T>.
InnerTy(field) ==
    IF is_option(field.ty) THEN extract_option_generic(field.ty) ELSE field.ty

OptionOf(S) == {None} \cup {Some(v) : v \in S}

\* Every value of the generated Partial struct: ident -> Option<inner type>
RECURSIVE PartialValues(_)
PartialValues(fields) ==
    IF Len(fields) = 1
    THEN {Head(fields).ident :> o : o \in OptionOf(ValuesOf(InnerTy(Head(fields))))}
    ELSE {(Head(fields).ident :> o) @@ rest :
            o \in OptionOf(ValuesOf(InnerTy(Head(fields)))),
            rest \in PartialValues(Tail(fields))}

\* #[derive(Default)] on the Partial struct: every field None
PartialDefault(fields) == [id \in Range(Idents(fields)) |-> None]

-----------------------------------------------------------------------------
(* The generated impl Partial: override_with and build.                    *)

\* a merge that takes the new layer as it is: Self { ..other }
override_with_replaces(fields, self, other) ==
    [id \in Range(all_fields(fields)) |-> other[id]]

\* a merge in which the receiver wins: self.#ident.or(other.#ident)
override_with_self_wins(fields, self, other) ==
    [id \in Range(all_fields(fields)) |-> or(self[id], other[id])]

\* override_expr: let #ident = other.#ident.or(self.#ident), for all_fields
override_with(fields, self, other) ==
    [id \in Range(all_fields(fields)) |-> or(other[id], self[id])]

MissingField(name) == [f0 |-> name]

\* req_field_expr, the value bound to the local: the unwrapped value, or the
\* type's Default::default() as a placeholder
req_field_expr(self, field) ==
    IF is_some(self[field.ident])
    THEN unwrap(self[field.ident])
    ELSE DefaultOf(field.ty)

\* a build that stops at the first required field that is None
missing_fields_first_only(fields, self) ==
    LET IsMissing(field) == ~is_some(self[field.ident])
        missing == SelectSeq(required_fields(fields), IsMissing)
    IN  IF missing = <<>> THEN <<>> ELSE <<MissingField(missing[1].ident)>>

\* a build that pushes each missing field in front of the earlier ones
missing_fields_reversed(fields, self) ==
    LET IsMissing(field) == ~is_some(self[field.ident])
        missing == SelectSeq(required_fields(fields), IsMissing)
    IN  [i \in 1..Len(missing) |-> MissingField(missing[Len(missing) + 1 - i].ident)]

\* a build that wants every field, the already-optional ones too
missing_fields_of_all_fields(fields, self) ==
    LET IsMissing(field) == ~is_some(self[field.ident])
        missing == SelectSeq(fields, IsMissing)
    IN  [i \in 1..Len(missing) |-> MissingField(missing[i].ident)]

\* req_field_expr, the pushes: one MissingField per required field that is
\* None, in the order of req_fields
missing_fields(fields, self) ==
    LET IsMissing(field) == ~is_some(self[field.ident])
        missing == SelectSeq(required_fields(fields), IsMissing)
    IN  [i \in 1..Len(missing) |-> MissingField(missing[i].ident)]

\* the other revision of the macro: Some(self.#ident.unwrap_or_default())
opt_field_expr_unwrap_or_default(self, field) ==
    IF is_some(self[field.ident])
    THEN self[field.ident]
    ELSE Some(DefaultOf(extract_option_generic(field.ty)))

\* opt_field_expr: let #ident = self.#ident
opt_field_expr(self, field) == self[field.ident]

\* Self::Target { #all_fields } built from the locals
AssembleTarget(fields, self) ==
    [id \in Range(all_fields(fields)) |->
        LET field == CHOOSE f \in Range(fields) : f.ident = id
        IN  IF is_option(field.ty)
            THEN opt_field_expr(self, field)
            ELSE req_field_expr(self, field)]

\* a build that assembles the Target without looking at missing_fields
build_ignores_missing(fields, self) == Ok(AssembleTarget(fields, self))

build(fields, self) ==
    IF missing_fields(fields, self) # <<>>
    THEN Err([kind |-> "MissingFields",
              required_fields |-> missing_fields(fields, self)])
    ELSE Ok(AssembleTarget(fields, self))

\* [&str]::join(sep): the pieces with sep between each two
RECURSIVE join(_, _)
join(strs, sep) ==
    IF Len(strs) <= 1 THEN strs
    ELSE <<Head(strs), sep>> \o join(Tail(strs), sep)

\* Display for Error: the pieces that write! puts together
fmt(e) ==
    CASE e.kind = "MissingFields" ->
           <<"The required fields [">>
           \o join([i \in 1..Len(e.required_fields) |-> e.required_fields[i].f0], ", ")
           \o <<"] were not specified in any of the configuration sources">>
      [] e.kind = "InconsistentSetting" ->
           <<"The field was set twice first to ", e.first_setting, " in ", e.first_source,
             " and then a second time to ", e.second_setting, " in ", e.second_source>>
      [] e.kind = "ParseFieldError" ->
           <<"The field ", e.field_name, " failed to convert to ", e.field_type,
             ", because of ", e.error_condition>>
      [] OTHER -> <<"File read error: ", e.value>>

\* assembling_config: the message build prints first
assembling_config(fields) ==
    <<"Building configuration", Len(req_fields(fields)), Len(opt_fields(fields))>>

-----------------------------------------------------------------------------
(* Source and the provided method Partial::source.                         *)

\* A Source is what its two methods give: its name() and the Result that
\* to_partial(self) returns. An Option<T> of a Source is a Source too.
OptNone == [option |-> "None"]
OptSome(s) == [option |-> "Some", inner |-> s]
IsOptionSource(value) == "option" \in DOMAIN value

RECURSIVE to_partial(_, _)
RECURSIVE name(_)

\* an Option impl that takes every Option for an absent source
to_partial_option_ignored(fields, value) ==
    IF IsOptionSource(value)
    THEN Ok(PartialDefault(fields))
    ELSE value.to_partial

\* impl Source<C> for Option<T>:
\* self.map_or_else(|| Ok(C::Partial::default()), |v| v.to_partial())
to_partial(fields, value) ==
    IF IsOptionSource(value)
    THEN IF value.option = "None"
         THEN Ok(PartialDefault(fields))
         ELSE to_partial(fields, value.inner)
    ELSE value.to_partial

\* self.as_ref().map_or("Unspecified".to_owned(), |v| v.name())
name(value) ==
    IF IsOptionSource(value)
    THEN IF value.option = "None" THEN "Unspecified" ELSE name(value.inner)
    ELSE value.name

\* the variants of serde_support::FileReadError
FileReadErrorKinds ==
    {"Open", "Toml", "Json", "NoFile", "UnsupportedExtension", "NoExtension"}

\* a conversion that hands the source's error on as it is
From_unconverted(e) == e

\* the From the `?` of Partial::source goes through:
\* impl From<FileReadError> for Error, and From<T> for T for Error itself
From(e) ==
    IF e.kind \in FileReadErrorKinds
    THEN [kind |-> "FileReadError", value |-> e]
    ELSE e

\* a source that folds the wrong way round: partial.override_with(self)
source_swapped(fields, self, value) ==
    IF to_partial(fields, value).ok
    THEN Ok(override_with(fields, to_partial(fields, value).val, self))
    ELSE Err(From(to_partial(fields, value).err))

\* a source that returns the new layer alone: Ok(partial)
source_forgets_self(fields, self, value) ==
    IF to_partial(fields, value).ok
    THEN Ok(to_partial(fields, value).val)
    ELSE Err(From(to_partial(fields, value).err))

\* let partial = value.to_partial()?; Ok(self.override_with(partial))
source(fields, self, value) ==
    IF to_partial(fields, value).ok
    THEN Ok(override_with(fields, self, to_partial(fields, value).val))
    ELSE Err(From(to_partial(fields, value).err))

\* a diagnostic that does not ask the source for its name
Sourcing_unnamed(value) == <<"Sourcing configuration from", "Unspecified">>

\* println!("Sourcing configuration from `{}`", value.name())
Sourcing(value) == <<"Sourcing configuration from", name(value)>>

\* The sources a chain is given: one per Partial Value that a layer can hold,
\* and a file source that fails.
PlainSources(fields) ==
    {[name |-> "Layer", to_partial |-> Ok(p)] : p \in PartialValues(fields)}
    \cup {[name |-> "Configuration file", to_partial |-> Err([kind |-> "NoExtension"])]}

\* ... and each of them wrapped in an Option, and the None of that type
Sources(fields) ==
    PlainSources(fields)
    \cup {OptSome(v) : v \in PlainSources(fields)}
    \cup {OptNone}

-----------------------------------------------------------------------------
(* The process environment.                                                *)

EnvNames == {"THING1", "THING2", "THING3", "THING4"}
EnvStrings == {"", "5", "6"}

NotPresent == [var |-> "NotPresent"]
NotUnicode == [var |-> "NotUnicode"]
VarOk(s) == [var |-> "Ok", value |-> s]

\* what std::env::var can return for one name
VarResults == {NotPresent, NotUnicode} \cup {VarOk(s) : s \in EnvStrings}

NoEnv == [n \in EnvNames |-> NotPresent]

\* a lookup that decodes lossily: a non-Unicode value reads as the empty text
env_var_lossy(e, key) == IF e[key] = NotUnicode THEN VarOk("") ELSE e[key]

\* std::env::var(candidate) against environment e
env_var(e, key) == e[key]

-----------------------------------------------------------------------------
(* env::extract: the loop over the candidates, one iteration at a time.    *)

\* found = Some((candidate, value)): the two parts
previous_key(f) == unwrap(f)[1]
previous_string(f) == unwrap(f)[2]

\* a match in which a second, different value is let through as redundant
match_arm_silent_pick(f, r) ==
    CASE r.var = "NotPresent" -> "NotPresent"
      [] r.var = "NotUnicode" -> "NotUnicode"
      [] r.var = "Ok" /\ f = None -> "Unset"
      [] OTHER -> "Redundant"

\* a match in which any second specification is an error
match_arm_redundant_is_error(f, r) ==
    CASE r.var = "NotPresent" -> "NotPresent"
      [] r.var = "NotUnicode" -> "NotUnicode"
      [] r.var = "Ok" /\ f = None -> "Unset"
      [] OTHER -> "Inconsistent"

\* a match that compares what the two strings stand for as numbers: "05"
\* is taken for "5", and a string that is no number for the empty one
match_arm_compares_parsed(f, r) ==
    LET number(s) == CASE s = "05" -> "5" [] s = "x" -> "" [] OTHER -> s
    IN  CASE r.var = "NotPresent" -> "NotPresent"
          [] r.var = "NotUnicode" -> "NotUnicode"
          [] r.var = "Ok" /\ f = None -> "Unset"
          [] r.var = "Ok" /\ f # None /\ number(previous_string(f)) = number(r.value) -> "Redundant"
          [] OTHER -> "Inconsistent"

\* a match in which the first value found wins: a later one is passed over
match_arm_first_wins(f, r) ==
    CASE r.var = "NotPresent" -> "NotPresent"
      [] r.var = "NotUnicode" -> "NotUnicode"
      [] r.var = "Ok" /\ f = None -> "Unset"
      [] OTHER -> "NotPresent"

\* a match in which a second value that is empty is passed over
match_arm_skips_empty(f, r) ==
    CASE r.var = "NotPresent" -> "NotPresent"
      [] r.var = "NotUnicode" -> "NotUnicode"
      [] r.var = "Ok" /\ f = None -> "Unset"
      [] r.var = "Ok" /\ f # None /\ previous_string(f) = r.value -> "Redundant"
      [] r.var = "Ok" /\ f # None /\ r.value = "" -> "NotPresent"
      [] OTHER -> "Inconsistent"

\* match (&found, std::env::var(candidate)): the arm that is taken
match_arm(f, r) ==
    CASE r.var = "NotPresent" -> "NotPresent"
      [] r.var = "NotUnicode" -> "NotUnicode"
      [] r.var = "Ok" /\ f = None -> "Unset"
      [] r.var = "Ok" /\ f # None /\ previous_string(f) = r.value -> "Redundant"
      [] OTHER -> "Inconsistent"

\* format!("Environment variable {key}")
EnvironmentVariable(key) == <<"Environment variable", key>>

InconsistentSetting(f, candidate, value) ==
    [kind |-> "InconsistentSetting",
     first_source |-> EnvironmentVariable(previous_key(f)),
     first_setting |-> previous_string(f),
     second_source |-> EnvironmentVariable(candidate),
     second_setting |-> value]

\* a return that takes an empty value for "not set"
extract_return_filter_empty(f) ==
    Ok(IF f = None \/ previous_string(f) = "" THEN None ELSE Some(previous_string(f)))

\* Ok(found.map(|(_, value)| value))
extract_return(f) ==
    Ok(IF f = None THEN None ELSE Some(previous_string(f)))

\* extract as a function of the environment and the slice: the loop from
\* found = f over the candidates cs, and what it returns
RECURSIVE extract_loop(_, _, _)
extract_loop(e, cs, f) ==
    IF cs = <<>> THEN extract_return(f)
    ELSE LET arm == match_arm(f, env_var(e, Head(cs)))
         IN  CASE arm = "Unset" ->
                    extract_loop(e, Tail(cs), Some(<<Head(cs), env_var(e, Head(cs)).value>>))
               [] arm = "Inconsistent" ->
                    Err(InconsistentSetting(f, Head(cs), env_var(e, Head(cs)).value))
               [] OTHER -> extract_loop(e, Tail(cs), f)

extract(e, cs) == extract_loop(e, cs, None)

\* the diagnostics of the three arms that print
WarnNotUnicode(candidate) == <<"was not Unicode", candidate>>
WarnRedundant(candidate, f) == <<"Redundant specification", candidate, previous_key(f)>>
ErrorInconsistent(candidate, f, value) ==
    <<"Inconsistent specification", candidate, previous_string(f), value>>

\* the slices extract can be handed
CandidateLists == UNION {[1..n -> EnvNames] : n \in 0..MaxAliases}

-----------------------------------------------------------------------------
(* #[derive(EnvSourced)]: the generated EnvVarSource and its to_partial.   *)

\* Ord of Ident is the order of the names as strings; the names in use,
\* ascending
IdentOrd == <<"THING1", "THING2", "THING3", "THING4">>
Rank(n) == CHOOSE i \in 1..Len(IdentOrd) : IdentOrd[i] = n

\* BTreeSet<Ident>::iter(): the elements of S, ascending
RECURSIVE iter(_)
iter(S) ==
    IF S = {} THEN <<>>
    ELSE LET m == CHOOSE x \in S : \A y \in S : Rank(x) <= Rank(y)
         IN  <<m>> \o iter(S \ {m})

RECURSIVE Flatten(_)
Flatten(ss) == IF ss = <<>> THEN <<>> ELSE Head(ss) \o Flatten(Tail(ss))

\* a derive that keeps the aliases of a field as they were written
env_var_fields_as_written(field) == Flatten(field.attrs)

\* env_var_fields and impl_default_env for one field: the names of every env
\* attribute are collected into one BTreeSet, whose iteration order fills the
\* array  #field_name: [#env_var_strings]
env_var_fields(field) == iter(UNION {Range(field.attrs[a]) : a \in 1..Len(field.attrs)})

\* Default for the generated EnvVarSource: field -> array of variable names
impl_default_env(fields) ==
    [id \in Range(Idents(fields)) |->
        env_var_fields(fields[CHOOSE i \in 1..Len(fields) : fields[i].ident = id])]

EnvVarSource(fields) ==
    [name |-> "Environment Variables", env_vars |-> impl_default_env(fields)]

\* is_string: the path is the single identifier String or str, also behind a
\* reference
RECURSIVE is_string(_)
is_string(ty) ==
    CASE ty.kind = "Path" ->
           /\ Len(ty.segments) = 1
           /\ ty.args = <<>>
           /\ ty.segments[1] \in {"String", "str"}
      [] ty.kind = "Reference" -> is_string(ty.elem)
      [] OTHER -> FALSE

\* stringify!(#ty): the tokens of the type
RECURSIVE stringify(_)
stringify(ty) ==
    CASE ty.kind = "Reference" -> <<"&">> \o stringify(ty.elem)
      [] ty.kind = "Path" /\ ty.args = <<>> -> ty.segments
      [] OTHER -> ty.segments \o <<"<">> \o stringify(ty.args[1]) \o <<">">>

\* <u64 as FromStr>::from_str and <usize as FromStr>::from_str on the
\* strings of the model
from_str(ty, s) ==
    CASE s \in {"5", "05"} -> Ok(5)
      [] s = "6" -> Ok(6)
      [] s = ""  -> Err([kind |-> "ParseIntError", cause |-> "Empty"])
      [] OTHER   -> Err([kind |-> "ParseIntError", cause |-> "InvalidDigit"])

ParseFieldError(field, e) ==
    [kind |-> "ParseFieldError",
     field_name |-> field.ident,
     field_type |-> stringify(field.ty),
     error_condition |-> e]

\* a field expression that leaves a field absent when its resolution fails
impl_source_skips_failed(field, extracted) ==
    IF ~extracted.ok \/ extracted.val = None \/ is_string(field.ty)
    THEN Ok(IF extracted.ok THEN extracted.val ELSE None)
    ELSE LET parsed == from_str(InnerTy(field), unwrap(extracted.val))
         IN  Ok(IF parsed.ok THEN Some(parsed.val) ELSE None)

\* a field expression that reports the type that was parsed, not the
\* declared one
impl_source_inner_type(field, extracted) ==
    IF ~extracted.ok THEN extracted
    ELSE IF is_string(field.ty) \/ extracted.val = None THEN Ok(extracted.val)
    ELSE LET parsed == from_str(InnerTy(field), unwrap(extracted.val))
         IN  IF parsed.ok THEN Ok(Some(parsed.val))
             ELSE Err([ParseFieldError(field, parsed.err)
                         EXCEPT !.field_type = stringify(InnerTy(field))])

\* impl_source: the expression of one field of the generated to_partial,
\* given what extract(&self.#ident) returned; an Err is what `?` returns
impl_source(field, extracted) ==
    IF ~extracted.ok THEN extracted
    ELSE IF is_string(field.ty) \/ extracted.val = None THEN Ok(extracted.val)
    ELSE LET parsed == from_str(InnerTy(field), unwrap(extracted.val))
         IN  IF parsed.ok THEN Ok(Some(parsed.val))
             ELSE Err(ParseFieldError(field, parsed.err))

\* a derive that emits the field expressions last field first
impl_source_field_reversed(fields, i) == fields[Len(fields) + 1 - i]

\* impl_source: fields.iter().map(..) - the field of the i-th expression of
\* the struct literal, which are evaluated in the order they are written
impl_source_field(fields, i) == fields[i]

\* Ok(Partial { f1: e1, f2: e2, ... }) from the values of e1, e2, ...
PartialOf(fields, values) ==
    [id \in Range(Idents(fields)) |->
        values[CHOOSE i \in 1..Len(fields) : fields[i].ident = id]]

-----------------------------------------------------------------------------
(* Spec: a chain of source calls ended by build, over Conf.                *)

Target == Conf

EnvIdle ==
    /\ env = NoEnv
    /\ candidates = <<>>
    /\ pos = 1
    /\ found = None
    /\ ret = None
    /\ epc = "idle"
    /\ reads = <<>>

Init ==
    /\ pc = "chain"
    /\ decl = Target
    /\ base \in PartialValues(decl)
    /\ chain = <<>>
    /\ acc = base
    /\ result = None
    /\ given = None
    /\ fidx = 0
    /\ sofar = <<>>
    /\ diag = <<>>
    /\ EnvIdle

\* self.source(value) for a value of S: the name is printed, then the source
\* is consumed
SourceCallOf(S) ==
    /\ pc = "chain"
    /\ Len(chain) < MaxChain
    /\ \E value \in S :
         LET r == source(decl, acc, value)
         IN  /\ diag' = Append(diag, Sourcing(value))
             /\ given' = Some(value)
             /\ IF r.ok
                THEN /\ acc' = r.val
                     /\ chain' = Append(chain, to_partial(decl, value).val)
                     /\ UNCHANGED <<pc, result>>
                ELSE /\ pc' = "failed"
                     /\ result' = Some(r)
                     /\ UNCHANGED <<acc, chain>>
    /\ UNCHANGED <<base, decl, fidx, sofar, envVars>>

SourceCall == SourceCallOf(Sources(decl))

\* self.build()
Build ==
    /\ pc = "chain"
    /\ pc' = "built"
    /\ result' = Some(build(decl, acc))
    /\ diag' = Append(diag, assembling_config(decl))
    /\ UNCHANGED <<base, chain, acc, decl, given, fidx, sofar, envVars>>

Next == SourceCall \/ Build

Spec == Init /\ [][Next]_vars

-----------------------------------------------------------------------------
(* SpecEnv: one call of env::extract against a fixed environment.          *)

LayerIdle ==
    /\ pc = "chain"
    /\ decl = Target
    /\ base = PartialDefault(decl)
    /\ chain = <<>>
    /\ acc = base
    /\ result = None
    /\ given = None
    /\ fidx = 0
    /\ sofar = <<>>

InitEnv ==
    /\ LayerIdle
    /\ diag = <<>>
    /\ env \in [EnvNames -> VarResults]
    /\ candidates = <<>>
    /\ pos = 1
    /\ found = None
    /\ ret = None
    /\ epc = "idle"
    /\ reads = <<>>

\* extract(candidates) is entered: let mut found = None
ExtractCall ==
    /\ epc = "idle"
    /\ \E cs \in CandidateLists : candidates' = cs
    /\ pos' = 1
    /\ found' = None
    /\ epc' = "loop"
    /\ UNCHANGED <<layerVars, diag, env, ret, reads>>

\* the loop is at a candidate, and the match takes arm a
AtArm(a) ==
    /\ epc = "loop"
    /\ pos <= Len(candidates)
    /\ match_arm(found, env_var(env, candidates[pos])) = a

\* (_, Err(NotPresent)) => continue
IterNotPresent ==
    /\ AtArm("NotPresent")
    /\ reads' = Append(reads, candidates[pos])
    /\ pos' = pos + 1
    /\ UNCHANGED <<layerVars, diag, env, candidates, found, ret, epc>>

\* (_, Err(NotUnicode(thing))) => a warning
IterNotUnicode ==
    /\ AtArm("NotUnicode")
    /\ reads' = Append(reads, candidates[pos])
    /\ diag' = Append(diag, WarnNotUnicode(candidates[pos]))
    /\ pos' = pos + 1
    /\ UNCHANGED <<layerVars, env, candidates, found, ret, epc>>

\* (None, Ok(value)) => found = Some((candidate, value))
IterUnset ==
    /\ AtArm("Unset")
    /\ reads' = Append(reads, candidates[pos])
    /\ found' = Some(<<candidates[pos], env_var(env, candidates[pos]).value>>)
    /\ pos' = pos + 1
    /\ UNCHANGED <<layerVars, diag, env, candidates, ret, epc>>

\* an equal-value arm that records the candidate it has just seen
IterRedundant_records_latest ==
    /\ AtArm("Redundant")
    /\ reads' = Append(reads, candidates[pos])
    /\ diag' = Append(diag, WarnRedundant(candidates[pos], found))
    /\ found' = Some(<<candidates[pos], env_var(env, candidates[pos]).value>>)
    /\ pos' = pos + 1
    /\ UNCHANGED <<layerVars, env, candidates, ret, epc>>

\* (Some((previous_key, previous_string)), Ok(value)) if equal => a warning
IterRedundant ==
    /\ AtArm("Redundant")
    /\ reads' = Append(reads, candidates[pos])
    /\ diag' = Append(diag, WarnRedundant(candidates[pos], found))
    /\ pos' = pos + 1
    /\ UNCHANGED <<layerVars, env, candidates, found, ret, epc>>

\* (Some((previous_key, previous_string)), Ok(value)) => return Err(err)
IterInconsistent ==
    /\ AtArm("Inconsistent")
    /\ reads' = Append(reads, candidates[pos])
    /\ LET value == env_var(env, candidates[pos]).value
       IN  /\ diag' = Append(diag, ErrorInconsistent(candidates[pos], found, value))
           /\ ret' = Some(Err(InconsistentSetting(found, candidates[pos], value)))
    /\ epc' = "done"
    /\ UNCHANGED <<layerVars, env, candidates, pos, found>>

\* the loop has run out of candidates
ExtractReturn ==
    /\ epc = "loop"
    /\ pos > Len(candidates)
    /\ ret' = Some(extract_return(found))
    /\ epc' = "done"
    /\ UNCHANGED <<layerVars, diag, env, candidates, pos, found, reads>>

NextEnv ==
    \/ ExtractCall
    \/ IterNotPresent
    \/ IterNotUnicode
    \/ IterUnset
    \/ IterRedundant
    \/ IterInconsistent
    \/ ExtractReturn

SpecEnv == InitEnv /\ [][NextEnv]_vars

-----------------------------------------------------------------------------
(* SpecEnvSource: a chain of source calls that takes the generated         *)
(* EnvVarSource, whose to_partial resolves the fields one at a time, each  *)
(* by a run of extract, against a fixed environment.                       *)

\* Conf with the aliases of str1 written in another order
ConfReordered ==
    [Conf EXCEPT ![1].attrs = <<<<"THING3">>, <<"THING2", "THING1">>>>]

\* Conf with a second alias on obj2
ConfTwoAliases ==
    [Conf EXCEPT ![2].attrs = <<<<"THING3", "THING4">>>>]

Declarations == {Conf, ConfReordered, ConfTwoAliases}

\* what std::env::var can return here: also a number written with a leading
\* zero and a string that is no number
EnvSourceResults == VarResults \cup {VarOk("05"), VarOk("x")}

\* the other sources of such a chain
PathBufNoExtension ==
    [name |-> "Configuration file", to_partial |-> Err([kind |-> "NoExtension"])]
OtherSources == {OptNone, PathBufNoExtension, OptSome(PathBufNoExtension)}

InitEnvSource ==
    /\ pc = "chain"
    /\ decl \in Declarations
    /\ base = PartialDefault(decl)
    /\ chain = <<>>
    /\ acc = base
    /\ result = None
    /\ given = None
    /\ fidx = 0
    /\ sofar = <<>>
    /\ diag = <<>>
    /\ env \in [EnvNames -> EnvSourceResults]
    /\ candidates = <<>>
    /\ pos = 1
    /\ found = None
    /\ ret = None
    /\ epc = "idle"
    /\ reads = <<>>

\* self.source(EnvVarSource::default()): the name is printed and
\* value.to_partial() is entered
EnvSourceCall ==
    /\ pc = "chain"
    /\ Len(chain) < MaxChain
    /\ diag' = Append(diag, Sourcing(EnvVarSource(decl)))
    /\ given' = Some(EnvVarSource(decl))
    /\ pc' = "to_partial"
    /\ fidx' = 1
    /\ sofar' = <<>>
    /\ UNCHANGED <<base, chain, acc, result, decl, envVars>>

\* self.source(value) for a source that is no EnvVarSource
OtherSourceCall == SourceCallOf(OtherSources)

\* #ident: extract(&self.#ident) is entered for the next field
FieldExtract ==
    /\ pc = "to_partial"
    /\ epc = "idle"
    /\ fidx <= Len(decl)
    /\ candidates' = unwrap(given).env_vars[impl_source_field(decl, fidx).ident]
    /\ pos' = 1
    /\ found' = None
    /\ epc' = "loop"
    /\ UNCHANGED <<layerVars, diag, env, ret, reads>>

\* the field's expression has a value: on to the next field
FieldResolved ==
    /\ pc = "to_partial"
    /\ epc = "done"
    /\ LET r == impl_source(impl_source_field(decl, fidx), unwrap(ret))
       IN  /\ r.ok
           /\ sofar' = Append(sofar, r.val)
    /\ fidx' = fidx + 1
    /\ epc' = "idle"
    /\ ret' = None
    /\ UNCHANGED <<pc, base, chain, acc, result, decl, given, diag,
                   env, candidates, pos, found, reads>>

\* the field's expression ends in `?` on an Err: to_partial returns it, and
\* source returns it in turn
FieldFailed ==
    /\ pc = "to_partial"
    /\ epc = "done"
    /\ LET r == impl_source(impl_source_field(decl, fidx), unwrap(ret))
       IN  /\ ~r.ok
           /\ result' = Some(source(decl, acc, [name |-> unwrap(given).name,
                                                to_partial |-> r]))
    /\ pc' = "failed"
    /\ UNCHANGED <<base, chain, acc, decl, given, fidx, sofar, diag, envVars>>

\* every field has a value: to_partial returns Ok(Partial {..}), and source
\* folds it in
EnvSourceReturn ==
    /\ pc = "to_partial"
    /\ epc = "idle"
    /\ fidx > Len(decl)
    /\ LET partial == PartialOf(decl, sofar)
           r == source(decl, acc, [name |-> unwrap(given).name,
                                   to_partial |-> Ok(partial)])
       IN  /\ acc' = r.val
           /\ chain' = Append(chain, partial)
    /\ pc' = "chain"
    /\ fidx' = 0
    /\ sofar' = <<>>
    /\ UNCHANGED <<base, result, decl, given, diag, envVars>>

NextEnvSource ==
    \/ EnvSourceCall
    \/ OtherSourceCall
    \/ FieldExtract
    \/ IterNotPresent
    \/ IterNotUnicode
    \/ IterUnset
    \/ IterRedundant
    \/ IterInconsistent
    \/ ExtractReturn
    \/ FieldResolved
    \/ FieldFailed
    \/ EnvSourceReturn

SpecEnvSource == InitEnvSource /\ [][NextEnvSource]_vars

-----------------------------------------------------------------------------
(* SpecConfiguration: the chains of the tests over struct Configuration,   *)
(* from any Partial Value of it.                                           *)

\* the three sources of tests/config.rs
Str1OnlySource ==
    [name |-> "CustomStruct",
     to_partial |-> Ok([str1 |-> Some("CustomStruct"), port |-> None, height |-> None,
                        custom_struct |-> None, optional_field |-> None])]
OptionalOnlySource ==
    [name |-> "CustomStruct",
     to_partial |-> Ok([str1 |-> None, port |-> None, height |-> None,
                        custom_struct |-> None, optional_field |-> Some(42)])]
DefaultSource ==
    [name |-> "DefaultSource",
     to_partial |-> Ok([str1 |-> Some(DefaultOf(Configuration[1].ty)),
                        port |-> Some(DefaultOf(Configuration[2].ty)),
                        height |-> Some(DefaultOf(Configuration[3].ty)),
                        custom_struct |-> Some(DefaultOf(Configuration[4].ty)),
                        optional_field |-> None])]
TestSources == {Str1OnlySource, OptionalOnlySource, DefaultSource}

InitConfiguration ==
    /\ pc = "chain"
    /\ decl = Configuration
    /\ base \in PartialValues(decl)
    /\ chain = <<>>
    /\ acc = base
    /\ result = None
    /\ given = None
    /\ fidx = 0
    /\ sofar = <<>>
    /\ diag = <<>>
    /\ EnvIdle

TestSourceCall == SourceCallOf(TestSources)

NextConfiguration == TestSourceCall \/ Build

SpecConfiguration == InitConfiguration /\ [][NextConfiguration]_vars

-----------------------------------------------------------------------------
(* Claims about the chain (checked under Spec).                            *)

\* Conf as its declaration reads: str1 and obj2 are required, option is
\* declared Option<u64>.
ConfFields == {"str1", "obj2", "option"}
ConfRequired == {"str1", "obj2"}
ConfOptional == {"option"}

\* the step is a source call that succeeded
SourceStep == pc' = "chain" /\ Len(chain') = Len(chain) + 1

\* C1 - merge precedence law: after self.override_with(other), every field,
\* required or already-optional, holds other's value when other's is present
\* and self's value, whatever it is, otherwise.
C1_MergePrecedence ==
    [][SourceStep =>
        /\ DOMAIN acc' = ConfFields
        /\ \A id \in ConfFields :
             acc'[id] = IF Last(chain')[id] # None
                        THEN Last(chain')[id]
                        ELSE acc[id]]_vars

\* a merge happened in which other won one field that self had set, with a
\* different value, and self kept another one
C1_Witness ==
    /\ pc = "chain"
    /\ Len(chain) = 1
    /\ base["option"] = Some(0) /\ chain[1]["option"] = Some(1)
    /\ base["obj2"] = Some(1) /\ chain[1]["obj2"] = None
    /\ base["str1"] = None /\ chain[1]["str1"] = None
    /\ acc["option"] = Some(1) /\ acc["obj2"] = Some(1) /\ acc["str1"] = None

\* the layers of the chain in which field id is present
LayersWith(id) == {i \in 1..Len(chain) : chain[i][id] # None}
MaxOf(S) == CHOOSE i \in S : \A j \in S : j <= i

\* C2 - ordering guarantee: after a chain of successful source calls each
\* field holds the value of the last source in which it is present, and
\* base's own value when no source has it.
C2_OrderingGuarantee ==
    pc = "chain" =>
        \A id \in ConfFields :
            acc[id] = IF LayersWith(id) = {}
                      THEN base[id]
                      ELSE chain[MaxOf(LayersWith(id))][id]

\* S2 > S1 > base on one chain: str1 from S2 over S1 and base, obj2 from S1
\* over base, option from base
C2_Witness ==
    /\ pc = "chain"
    /\ Len(chain) = 2
    /\ base["str1"] = Some("X") /\ chain[1]["str1"] = Some("X")
    /\ chain[2]["str1"] = Some("") /\ acc["str1"] = Some("")
    /\ base["obj2"] = Some(0) /\ chain[1]["obj2"] = Some(1)
    /\ chain[2]["obj2"] = None /\ acc["obj2"] = Some(1)
    /\ base["option"] = Some(1) /\ chain[1]["option"] = None
    /\ chain[2]["option"] = None /\ acc["option"] = Some(1)

\* C3 - associativity with order: base.source(A).source(B) is
\* base.override_with(A_partial.override_with(B_partial)).
C3_AssociativityWithOrder ==
    (pc = "chain" /\ Len(chain) = 2) =>
        acc = override_with(Target, base,
                            override_with(Target, chain[1], chain[2]))

\* two sources applied, each contributing a field the other and base lack
C3_Witness ==
    /\ pc = "chain"
    /\ Len(chain) = 2
    /\ base = [str1 |-> Some("X"), obj2 |-> None, option |-> None]
    /\ chain[1] = [str1 |-> Some(""), obj2 |-> Some(1), option |-> None]
    /\ chain[2] = [str1 |-> None, obj2 |-> Some(0), option |-> Some(1)]
    /\ acc = [str1 |-> Some(""), obj2 |-> Some(0), option |-> Some(1)]

\* the required fields that are absent in the Partial Value build is given
Missing == {id \in ConfRequired : acc[id] = None}
Listed(r) == {r.err.required_fields[i].f0 : i \in 1..Len(r.err.required_fields)}

\* C4 - aggregation completeness: build on a Partial Value whose set M of
\* absent required fields is not empty fails with MissingFields naming
\* exactly the fields of M, each once.
C4_AggregationCompleteness ==
    (pc = "built" /\ Missing # {}) =>
        /\ ~unwrap(result).ok
        /\ unwrap(result).err.kind = "MissingFields"
        /\ Listed(unwrap(result)) = Missing
        /\ Len(unwrap(result).err.required_fields) = Cardinality(Missing)

\* build with no source applied to the default Partial Value: both required
\* fields are listed
C4_Witness ==
    /\ pc = "built"
    /\ chain = <<>>
    /\ base = PartialDefault(Target)
    /\ ~unwrap(result).ok
    /\ Listed(unwrap(result)) = {"str1", "obj2"}

\* field id is absent in base and in every layer
AbsentEverywhere(id) ==
    base[id] = None /\ \A i \in 1..Len(chain) : chain[i][id] = None

\* C5 - optional defaulting: build passes an already-optional field through
\* unchanged; absent in every layer it builds to None, it never makes build
\* fail and is never listed in MissingFields.
C5_OptionalDefaulting ==
    pc = "built" =>
        \A id \in ConfOptional :
            /\ unwrap(result).ok => unwrap(result).val[id] = acc[id]
            /\ (unwrap(result).ok /\ AbsentEverywhere(id)) =>
                   unwrap(result).val[id] = None
            /\ ~unwrap(result).ok => id \notin Listed(unwrap(result))
            /\ (\A r \in ConfRequired : acc[r] # None) => unwrap(result).ok

\* a build that succeeded although option was absent in every layer
C5_Witness ==
    /\ pc = "built"
    /\ Len(chain) = 2
    /\ AbsentEverywhere("option")
    /\ unwrap(result).ok
    /\ unwrap(result).val["option"] = None

\* C6 - build returns Ok exactly when every required field is present, and
\* then every required field of the Target is the value the Partial Value
\* held: the Default::default() placeholder is never returned.
C6_BuildOkIffComplete ==
    pc = "built" =>
        /\ unwrap(result).ok <=> (\A id \in ConfRequired : acc[id] # None)
        /\ unwrap(result).ok =>
               \A id \in ConfRequired : unwrap(result).val[id] = unwrap(acc[id])

\* a build for which obj2 got the placeholder while str1 was present: it
\* failed, and no Target was returned
C6_Witness ==
    /\ pc = "built"
    /\ acc["str1"] = Some("X") /\ acc["obj2"] = None
    /\ req_field_expr(acc, Conf[2]) = 0
    /\ ~unwrap(result).ok

\* the step is a call of Partial::source: it printed the source's name
SourceCalled ==
    /\ Len(diag') = Len(diag) + 1
    /\ Last(diag')[1] = "Sourcing configuration from"

\* the source under the Option wrapper, for a source that is not None
Inner(v) == IF "option" \in DOMAIN v THEN v.inner ELSE v
IsNoneSource(v) == "option" \in DOMAIN v /\ v.option = "None"
Fails(v) == ~IsNoneSource(v) /\ ~Inner(v).to_partial.ok

\* C11 - sequencer short-circuit: when to_partial of the source given to
\* source fails, source returns that error converted into the Partial
\* Value's error type, override_with is not applied, no Partial Value comes
\* back, and nothing more of the chain runs.
C11_ShortCircuit ==
    [][/\ pc # "failed"
       /\ (SourceCalled /\ Fails(unwrap(given'))) =>
            /\ pc' = "failed"
            /\ result' = Some(Err([kind |-> "FileReadError",
                                   value |-> Inner(unwrap(given')).to_partial.err]))
            /\ acc' = acc
            /\ chain' = chain]_vars

\* a chain whose first source was folded in and whose second source failed
C11_Witness ==
    /\ pc = "failed"
    /\ Len(chain) = 1
    /\ base["obj2"] = None /\ chain[1]["obj2"] = Some(1) /\ acc["obj2"] = Some(1)
    /\ Fails(unwrap(given))
    /\ ~unwrap(result).ok
    /\ unwrap(result).err.kind = "FileReadError"
    /\ unwrap(result).err.value.kind = "NoExtension"

\* C12 - Option-wrapped source: p.source(None) succeeds and returns p
\* unchanged; p.source(Some(s)) gives what p.source(s) gives: s's layer
\* merged over p when s.to_partial() succeeds, s's error otherwise.
C12_OptionSource ==
    [][(SourceCalled /\ "option" \in DOMAIN unwrap(given')) =>
        IF unwrap(given').option = "None"
        THEN /\ pc' = "chain"
             /\ acc' = acc
             /\ result' = None
        ELSE LET s == unwrap(given').inner
             IN  IF s.to_partial.ok
                 THEN /\ pc' = "chain"
                      /\ result' = None
                      /\ \A id \in ConfFields :
                           acc'[id] = IF s.to_partial.val[id] # None
                                      THEN s.to_partial.val[id]
                                      ELSE acc[id]
                 ELSE /\ pc' = "failed"
                      /\ acc' = acc
                      /\ result' = Some(Err([kind |-> "FileReadError",
                                             value |-> s.to_partial.err]))]_vars

\* None was sourced after a layer: the layer is in, and None changed nothing
C12_Witness ==
    /\ pc = "chain"
    /\ Len(chain) = 2
    /\ given = Some(OptNone)
    /\ diag = << <<"Sourcing configuration from", "Layer">>,
                 <<"Sourcing configuration from", "Unspecified">> >>
    /\ base = [str1 |-> None, obj2 |-> Some(0), option |-> None]
    /\ chain[1] = [str1 |-> Some("X"), obj2 |-> Some(1), option |-> None]
    /\ acc = [str1 |-> Some("X"), obj2 |-> Some(1), option |-> None]

\* the fields that are present in Partial Value p
Present(p) == {id \in ConfFields : p[id] # None}

\* C16 - override_with never downgrades a set value to absent: a field that
\* is present in self is present in the result whatever other holds, a layer
\* that leaves a field absent leaves its value as it was, and so the set of
\* present fields never shrinks along a chain of successful source calls.
C16_NeverDowngrades ==
    /\ [][SourceStep =>
            /\ Present(acc) \subseteq Present(acc')
            /\ \A id \in ConfFields :
                 Last(chain')[id] = None => acc'[id] = acc[id]]_vars
    /\ [](pc = "chain" =>
            /\ Present(base) \subseteq Present(acc)
            /\ \A i \in 1..Len(chain) : Present(chain[i]) \subseteq Present(acc))

\* a later layer left absent what an earlier layer had set, and the value
\* the earlier layer set is still there
C16_Witness ==
    /\ pc = "chain"
    /\ Len(chain) = 2
    /\ base = PartialDefault(Target)
    /\ chain[1] = [str1 |-> Some("X"), obj2 |-> Some(1), option |-> Some(1)]
    /\ chain[2] = [str1 |-> Some(""), obj2 |-> None, option |-> None]
    /\ acc = [str1 |-> Some(""), obj2 |-> Some(1), option |-> Some(1)]

-----------------------------------------------------------------------------
(* Claims about env::extract (checked under SpecEnv).                      *)

\* the positions of the candidates that are present with valid text, and the
\* values they hold, read off the environment
ValidAt == {i \in 1..Len(candidates) : env[candidates[i]].var = "Ok"}
ValidValues == {env[candidates[i]].value : i \in ValidAt}
NotUnicodeAt == {i \in 1..Len(candidates) : env[candidates[i]].var = "NotUnicode"}

\* C7 - alias inconsistency is an error, never a silent pick: when two
\* candidates are present with valid text and differ, extract returns
\* InconsistentSetting naming two of the candidates as origins together with
\* the two different values they are set to, and no resolved value.
C7_InconsistencyIsError ==
    (epc = "done" /\ Cardinality(ValidValues) >= 2) =>
        /\ ~unwrap(ret).ok
        /\ unwrap(ret).err.kind = "InconsistentSetting"
        /\ \E i, j \in ValidAt :
             /\ unwrap(ret).err.first_source = <<"Environment variable", candidates[i]>>
             /\ unwrap(ret).err.second_source = <<"Environment variable", candidates[j]>>
             /\ unwrap(ret).err.first_setting = env[candidates[i]].value
             /\ unwrap(ret).err.second_setting = env[candidates[j]].value
             /\ env[candidates[i]].value # env[candidates[j]].value

\* aliases [A, B] with A=5, B=6: the error names both
C7_Witness ==
    /\ epc = "done"
    /\ candidates = <<"THING1", "THING2">>
    /\ env["THING1"] = VarOk("5") /\ env["THING2"] = VarOk("6")
    /\ unwrap(ret) = Err([kind |-> "InconsistentSetting",
                          first_source |-> <<"Environment variable", "THING1">>,
                          first_setting |-> "5",
                          second_source |-> <<"Environment variable", "THING2">>,
                          second_setting |-> "6"])

\* the redundancy warnings printed so far
RedundancyWarnings ==
    {i \in 1..Len(diag) : diag[i][1] = "Redundant specification"}

\* C8 - when at least one candidate is present with valid text and all such
\* candidates hold the same value v, extract returns Ok(Some(v)); a second
\* alias with the same value gives a redundancy warning and no error.
C8_ConsistentAliasesResolve ==
    (epc = "done" /\ Cardinality(ValidValues) = 1) =>
        /\ unwrap(ret) = Ok(Some(CHOOSE v \in ValidValues : TRUE))
        /\ Cardinality(ValidAt) >= 2 => RedundancyWarnings # {}

\* aliases [A, B] with A=5, B=5: resolved to 5 with one redundancy warning
C8_Witness ==
    /\ epc = "done"
    /\ candidates = <<"THING1", "THING2">>
    /\ env["THING1"] = VarOk("5") /\ env["THING2"] = VarOk("5")
    /\ unwrap(ret) = Ok(Some("5"))
    /\ diag = <<<<"Redundant specification", "THING2", "THING1">>>>

\* C9 - extract returns Ok(None) exactly when no candidate is present with
\* valid text: every candidate is absent or not Unicode, the empty slice
\* included; a candidate set to the empty string is present.
C9_NoneIffNoValidCandidate ==
    epc = "done" => (unwrap(ret) = Ok(None) <=> ValidAt = {})

\* a slice of an absent and a non-Unicode candidate resolves to None
C9_Witness ==
    /\ epc = "done"
    /\ candidates = <<"THING1", "THING2">>
    /\ env["THING1"] = NotPresent /\ env["THING2"] = NotUnicode
    /\ unwrap(ret) = Ok(None)

\* the step is the loop passing a candidate that is not valid text
NotUnicodeStep ==
    /\ epc = "loop"
    /\ pos <= Len(candidates)
    /\ env[candidates[pos]].var = "NotUnicode"
    /\ pos' = pos + 1

\* C10 - a candidate that is present but not valid text is treated as absent:
\* passing it changes neither found nor the outcome, the loop goes on, and
\* the call returns what the valid candidates alone decide: an error only
\* when two of them differ, their value when they agree, None when there is
\* none.
C10_NotUnicodeIsAbsent ==
    /\ [][NotUnicodeStep => (found' = found /\ ret' = None /\ epc' = "loop")]_vars
    /\ []((epc = "done" /\ NotUnicodeAt # {}) =>
             /\ ~unwrap(ret).ok <=> Cardinality(ValidValues) >= 2
             /\ \A v \in EnvStrings :
                  ValidValues = {v} => unwrap(ret) = Ok(Some(v))
             /\ ValidValues = {} => unwrap(ret) = Ok(None))

\* a non-Unicode alias between two valid ones: the first is resolved and the
\* last is still checked against it
C10_Witness ==
    /\ epc = "done"
    /\ candidates = <<"THING1", "THING2", "THING3">>
    /\ env["THING1"] = VarOk("5")
    /\ env["THING2"] = NotUnicode
    /\ env["THING3"] = VarOk("6")
    /\ diag[1] = <<"was not Unicode", "THING2">>
    /\ ~unwrap(ret).ok
    /\ unwrap(ret).err.second_source = <<"Environment variable", "THING3">>

\* the first candidate that is set to valid text, and the first one after it
\* whose valid text is another
FirstValid == CHOOSE i \in ValidAt : \A j \in ValidAt : i <= j
Conflicting == {i \in ValidAt : env[candidates[i]].value # env[candidates[FirstValid]].value}
FirstConflict == CHOOSE i \in Conflicting : \A j \in Conflicting : i <= j

\* C17 - on the first inconsistent alias extract aborts at once: the
\* candidates read from the environment are exactly those up to and including
\* the first conflicting one, the error is made of the first valid candidate
\* and the first conflicting one alone, and nothing is printed for a candidate
\* after it, whatever it is set to.
C17_AbortsAtFirstConflict ==
    (epc = "done" /\ ~unwrap(ret).ok) =>
        /\ Conflicting # {}
        /\ reads = SubSeq(candidates, 1, FirstConflict)
        /\ pos = FirstConflict
        /\ unwrap(ret).err =
             [kind |-> "InconsistentSetting",
              first_source |-> <<"Environment variable", candidates[FirstValid]>>,
              first_setting |-> env[candidates[FirstValid]].value,
              second_source |-> <<"Environment variable", candidates[FirstConflict]>>,
              second_setting |-> env[candidates[FirstConflict]].value]
        /\ Len(diag) = 1 + Cardinality({i \in 1..FirstConflict :
                                          i \in NotUnicodeAt \/ (i \in ValidAt /\ i \notin {FirstValid, FirstConflict})})
        /\ Last(diag)[1] = "Inconsistent specification"

\* aliases [A, B, C] with A=5, B=6 and C not Unicode: C is never read
C17_Witness ==
    /\ epc = "done"
    /\ candidates = <<"THING1", "THING2", "THING3">>
    /\ env["THING1"] = VarOk("5") /\ env["THING2"] = VarOk("6")
    /\ env["THING3"] = NotUnicode
    /\ reads = <<"THING1", "THING2">>
    /\ diag = <<<<"Inconsistent specification", "THING2", "5", "6">>>>
    /\ unwrap(ret).err.second_setting = "6"

\* C22 - found is set once, by the first candidate that is validly set, and
\* never replaced: a redundant candidate leaves the recorded origin as it
\* is, so the error names the first validly set candidate and its value as
\* the first source, a redundancy warning names it as the previous one, and
\* on success the value returned is its value.
C22_FoundSetOnce ==
    /\ [][found # None => found' = found]_vars
    /\ [](found # None =>
            found = Some(<<candidates[FirstValid], env[candidates[FirstValid]].value>>))
    /\ [](\A i \in RedundancyWarnings : diag[i][3] = candidates[FirstValid])
    /\ [](epc = "done" =>
            IF unwrap(ret).ok
            THEN ValidAt # {} => unwrap(ret).val = Some(env[candidates[FirstValid]].value)
            ELSE /\ unwrap(ret).err.first_source =
                      <<"Environment variable", candidates[FirstValid]>>
                 /\ unwrap(ret).err.first_setting = env[candidates[FirstValid]].value)

\* aliases [A, B, C] with A=5, B=5, C=6: B is redundant to A, and the error
\* names A with 5 and C with 6
C22_Witness ==
    /\ epc = "done"
    /\ candidates = <<"THING1", "THING2", "THING3">>
    /\ env["THING1"] = VarOk("5") /\ env["THING2"] = VarOk("5")
    /\ env["THING3"] = VarOk("6")
    /\ found = Some(<<"THING1", "5">>)
    /\ diag[1] = <<"Redundant specification", "THING2", "THING1">>
    /\ unwrap(ret) = Err([kind |-> "InconsistentSetting",
                          first_source |-> <<"Environment variable", "THING1">>,
                          first_setting |-> "5",
                          second_source |-> <<"Environment variable", "THING3">>,
                          second_setting |-> "6"])

\* the candidates in every order
Orderings ==
    {[i \in 1..Len(candidates) |-> candidates[p[i]]] : p \in Permutations(1..Len(candidates))}
\* what of a result does not depend on the order: None, Some(v), or that it
\* is an InconsistentSetting
Outcome(r) == IF r.ok THEN r ELSE Err(r.err.kind)

\* C23 - under a fixed environment extract returns None, Some(v) with the
\* same v, or an InconsistentSetting error alike for every ordering of the
\* candidates; the origins and values the error carries are those of two
\* candidates of the list with different values, which two depends on the
\* order.
C23_OrderIndependentOutcome ==
    epc = "done" =>
        /\ unwrap(ret) = extract(env, candidates)
        /\ \A cs \in Orderings :
             /\ Outcome(extract(env, cs)) = Outcome(unwrap(ret))
             /\ ~extract(env, cs).ok =>
                  \E i, j \in ValidAt :
                     /\ env[candidates[i]].value # env[candidates[j]].value
                     /\ extract(env, cs).err =
                          [kind |-> "InconsistentSetting",
                           first_source |-> <<"Environment variable", candidates[i]>>,
                           first_setting |-> env[candidates[i]].value,
                           second_source |-> <<"Environment variable", candidates[j]>>,
                           second_setting |-> env[candidates[j]].value]

\* aliases [A, B, C] with A=5, B=6 and C unset: an error in every order, but
\* [B, C, A] reports B with 6 first and A with 5 second
C23_Witness ==
    /\ epc = "done"
    /\ candidates = <<"THING1", "THING2", "THING3">>
    /\ env["THING1"] = VarOk("5") /\ env["THING2"] = VarOk("6")
    /\ env["THING3"] = NotPresent
    /\ unwrap(ret).err.first_setting = "5"
    /\ extract(env, <<"THING2", "THING3", "THING1">>).err.first_setting = "6"
    /\ extract(env, <<"THING2", "THING3", "THING1">>).err.second_source =
         <<"Environment variable", "THING1">>
    /\ \A cs \in Orderings : ~extract(env, cs).ok

-----------------------------------------------------------------------------
(* Claims about the generated environment Source (checked under            *)
(* SpecEnvSource).                                                         *)

\* the field whose expression is being evaluated, and what extract returned
\* for it
Field == decl[fidx]
Extracted == unwrap(ret)
\* Conf's fields that are not text: obj2: usize and option: Option<u64>
NotTextual == {"obj2", "option"}
\* the strings of the model a u64 or usize parses from
Parses == {"5", "05", "6"}

\* the resolution of the field yields InconsistentSetting or ParseFieldError
YieldsError ==
    \/ ~Extracted.ok
    \/ /\ Field.ident \in NotTextual
       /\ Extracted.val # None
       /\ unwrap(Extracted.val) \notin Parses

AtFieldResult == pc = "to_partial" /\ epc = "done"

\* C13 - a field-level failure is fatal to the whole environment Source: when
\* the resolution of a field yields InconsistentSetting or ParseFieldError,
\* to_partial returns that one error, source returns it, and the accumulated
\* Partial Value is left as it was before the call although earlier fields
\* had resolved; no later field is resolved, so errors are not aggregated.
C13_FieldFailureIsFatal ==
    /\ [][(AtFieldResult /\ YieldsError) =>
            /\ pc' = "failed"
            /\ ~unwrap(result').ok
            /\ unwrap(result').err.kind \in {"InconsistentSetting", "ParseFieldError"}
            /\ ~Extracted.ok => unwrap(result').err = Extracted.err
            /\ Extracted.ok => unwrap(result').err.field_name = Field.ident
            /\ acc' = acc /\ chain' = chain /\ reads' = reads]_vars
    /\ [][(pc = "to_partial" /\ pc' # "chain") => (acc' = acc /\ chain' = chain)]_vars
    /\ [][pc = "failed" => (reads' = reads /\ acc' = acc /\ result' = result)]_vars

\* str1 resolves to "", obj2 fails to parse "", and option, which would fail
\* as well, is never looked at: one error, nothing applied
C13_Witness ==
    /\ pc = "failed"
    /\ decl = Conf
    /\ env["THING3"] = VarOk("") /\ env["THING4"] = VarOk("")
    /\ sofar = <<Some("")>>
    /\ fidx = Len(sofar) + 1
    /\ unwrap(result).err.kind = "ParseFieldError"
    /\ unwrap(result).err.field_name = "obj2"
    /\ acc = PartialDefault(Conf)
    /\ chain = <<>>
    /\ "THING4" \notin Range(reads)

\* C14 - for a field that is not textual the resolved string is parsed into
\* the declared type, the inner type for an Option field: unresolved stays
\* absent, "5" becomes present(5), and a string that does not parse makes
\* to_partial fail with ParseFieldError carrying the field's identifier, the
\* declared type and the parse failure.
C14_ParseNonTextual ==
    [][(AtFieldResult /\ Extracted.ok /\ Field.ident \in NotTextual) =>
         IF Extracted.val = None
         THEN pc' = "to_partial" /\ sofar' = Append(sofar, None)
         ELSE IF unwrap(Extracted.val) \in Parses
         THEN /\ pc' = "to_partial"
              /\ sofar' = Append(sofar, Some(IF unwrap(Extracted.val) = "6" THEN 6 ELSE 5))
         ELSE /\ pc' = "failed"
              /\ unwrap(result') =
                   Err([kind |-> "ParseFieldError",
                        field_name |-> Field.ident,
                        field_type |-> IF Field.ident = "obj2"
                                       THEN <<"usize">>
                                       ELSE <<"Option", "<", "u64", ">">>,
                        error_condition |->
                            [kind |-> "ParseIntError",
                             cause |-> IF unwrap(Extracted.val) = ""
                                       THEN "Empty" ELSE "InvalidDigit"]])]_vars

\* str1 = "5" and obj2 = 5 resolved, then option: Option<u64> is set to the
\* empty string: the error names option and Option<u64>
C14_Witness ==
    /\ pc = "failed"
    /\ sofar = <<Some("5"), Some(5)>>
    /\ Field.ident = "option"
    /\ Extracted = Ok(Some(""))
    /\ unwrap(result).err.field_name = "option"
    /\ unwrap(result).err.field_type = <<"Option", "<", "u64", ">">>
    /\ unwrap(result).err.error_condition.cause = "Empty"

\* the aliases of the field as they are written on it, across and within its
\* env attributes
Declared == Flatten(Field.attrs)
\* how many candidates this run of extract has read so far: the loop is at
\* pos, and an inconsistent candidate is read without moving on
ReadSoFar == IF epc = "done" /\ ~unwrap(ret).ok THEN pos ELSE pos - 1

\* C18 as stated - the candidates of a field are consulted in the order in
\* which they were declared on the field.
C18_DeclarationOrder ==
    (pc = "to_partial" /\ epc \in {"loop", "done"}) =>
        /\ candidates = Declared
        /\ ReadSoFar <= Len(reads)
        /\ \A i \in 1..ReadSoFar : reads[Len(reads) - ReadSoFar + i] = Declared[i]

\* C18 as amended - the candidates of a field are the aliases declared on
\* it, each once, in ascending order of their names whatever order they were
\* written in, and they are read from the environment in that order.
C18_AscendingOrder ==
    (pc = "to_partial" /\ epc \in {"loop", "done"}) =>
        /\ Range(candidates) = Range(Declared)
        /\ \A i, j \in 1..Len(candidates) : i < j => Rank(candidates[i]) < Rank(candidates[j])
        /\ ReadSoFar <= Len(reads)
        /\ \A i \in 1..ReadSoFar : reads[Len(reads) - ReadSoFar + i] = candidates[i]

\* str1 declared with #[env(THING3)] #[env(THING2, THING1)]: read as THING1,
\* THING2, THING3
C18_Witness ==
    /\ pc = "to_partial"
    /\ epc = "done"
    /\ decl = ConfReordered
    /\ Field.ident = "str1"
    /\ Declared = <<"THING3", "THING2", "THING1">>
    /\ candidates = <<"THING1", "THING2", "THING3">>
    /\ reads = <<"THING1", "THING2", "THING3">>

\* the diagnostics that name a source
SourcingEntries == {i \in 1..Len(diag) : diag[i][1] = "Sourcing configuration from"}
EnvSourcingEntries == {i \in SourcingEntries : diag[i][2] = "Environment Variables"}
ExpectedName(v) == IF IsNoneSource(v) THEN "Unspecified" ELSE Inner(v).name
AliasCount ==
    Len(Flatten(decl[1].attrs)) + Len(Flatten(decl[2].attrs)) + Len(Flatten(decl[3].attrs))

\* C19 - source prints the name of the source before it consumes it, and
\* consumes it once: a source call appends the name of the source it was
\* given before anything is read from the environment, every other
\* diagnostic and every read of that call comes after it, there is one name
\* per call, failed calls included, in the order of the calls, and a chain
\* whose calls succeeded has read every alias once per environment source.
C19_NameThenConsumeOnce ==
    /\ [][SourceCalled =>
            /\ pc = "chain"
            /\ diag' = Append(diag, <<"Sourcing configuration from",
                                      ExpectedName(unwrap(given'))>>)
            /\ reads' = reads
            /\ acc' = acc \/ ExpectedName(unwrap(given')) = "Unspecified"]_vars
    /\ [][(reads' # reads \/ (diag' # diag /\ ~SourceCalled)) =>
            (pc = "to_partial" /\ pc' = "to_partial")]_vars
    /\ [](Cardinality(SourcingEntries) =
            Len(chain) + (IF pc \in {"to_partial", "failed"} THEN 1 ELSE 0))
    /\ [](pc = "chain" => Len(reads) = AliasCount * Cardinality(EnvSourcingEntries))

\* the environment source went in with a warning, then the file source
\* failed: both names are there, in order
C19_Witness ==
    /\ pc = "failed"
    /\ Len(chain) = 1
    /\ diag[1] = <<"Sourcing configuration from", "Environment Variables">>
    /\ Len(diag) > Cardinality(SourcingEntries)
    /\ Last(diag) = <<"Sourcing configuration from", "Configuration file">>
    /\ unwrap(given) = OptSome(PathBufNoExtension)
    /\ Len(reads) = AliasCount

\* the source of the call under way, or of the call that failed, is the
\* generated environment Source
InEnvCall ==
    /\ pc \in {"to_partial", "failed"}
    /\ "env_vars" \in DOMAIN unwrap(given)

\* C24 - alias consistency is decided on the raw strings, before any parse:
\* for a field that is not textual, two validly set aliases whose strings
\* differ make the environment Source fail with InconsistentSetting, also
\* when both strings stand for the same number or neither parses;
\* ParseFieldError is returned exactly when the aliases gave one string and
\* it does not parse.
C24_ConsistencyBeforeParse ==
    /\ (AtFieldResult /\ Field.ident \in NotTextual /\ Cardinality(ValidValues) >= 2) =>
          /\ ~Extracted.ok
          /\ Extracted.err.kind = "InconsistentSetting"
          /\ Extracted.err.first_setting # Extracted.err.second_setting
    /\ (InEnvCall /\ pc = "failed" /\ Field.ident \in NotTextual) =>
          /\ Cardinality(ValidValues) >= 2 =>
               unwrap(result).err.kind = "InconsistentSetting"
          /\ unwrap(result).err.kind = "ParseFieldError" <=>
               /\ Cardinality(ValidValues) = 1
               /\ ValidValues \cap Parses = {}

\* obj2: usize with aliases THING3=5 and THING4=05: both are the number 5,
\* and the Source fails with InconsistentSetting of "5" and "05"
C24_Witness ==
    /\ InEnvCall
    /\ pc = "failed"
    /\ decl = ConfTwoAliases
    /\ Field.ident = "obj2"
    /\ sofar = <<Some("5")>>
    /\ candidates = <<"THING3", "THING4">>
    /\ env["THING3"] = VarOk("5") /\ env["THING4"] = VarOk("05")
    /\ unwrap(result).err.kind = "InconsistentSetting"
    /\ unwrap(result).err.first_setting = "5"
    /\ unwrap(result).err.second_setting = "05"

\* the aliases of the i-th field of the declaration as extract is handed
\* them, and the valid strings the environment has for them
Aliases(i) == iter(Range(Flatten(decl[i].attrs)))
ValidStrings(i) ==
    {env[Aliases(i)[k]].value : k \in {k \in 1..Len(Aliases(i)) : env[Aliases(i)[k]].var = "Ok"}}
\* the i-th field cannot be resolved in this environment
FieldFails(i) ==
    \/ Cardinality(ValidStrings(i)) >= 2
    \/ /\ decl[i].ident \in NotTextual
       /\ Cardinality(ValidStrings(i)) = 1
       /\ ValidStrings(i) \cap Parses = {}
\* the aliases of the first n fields, field after field
RECURSIVE AliasesUpTo(_)
AliasesUpTo(n) == IF n = 0 THEN <<>> ELSE AliasesUpTo(n - 1) \o Aliases(n)
\* what the call under way has read from the environment
CallReads ==
    SubSeq(reads, AliasCount * (Cardinality(EnvSourcingEntries) - 1) + 1, Len(reads))

\* C25 - the generated environment Source resolves the fields one after
\* another in the order of the declaration and returns the error of the
\* first field that fails: every field before the one it is at has resolved,
\* what it has read are the aliases of the fields in that order up to the one
\* it is at, and when it has failed the field it is at is the first that
\* cannot be resolved and the error is that field's.
C25_FirstFailingField ==
    (InEnvCall /\ fidx <= Len(decl)) =>
        /\ Len(sofar) = fidx - 1
        /\ \A i \in 1..(fidx - 1) : ~FieldFails(i)
        /\ Len(CallReads) <= Len(AliasesUpTo(fidx))
        /\ CallReads = SubSeq(AliasesUpTo(fidx), 1, Len(CallReads))
        /\ epc = "idle" => CallReads = AliasesUpTo(fidx - 1)
        /\ pc = "failed" =>
             /\ FieldFails(fidx)
             /\ ~unwrap(result).ok
             /\ IF Cardinality(ValidStrings(fidx)) >= 2
                THEN /\ unwrap(result).err.kind = "InconsistentSetting"
                     /\ {unwrap(result).err.first_source[2],
                         unwrap(result).err.second_source[2]} \subseteq Range(Aliases(fidx))
                     /\ {unwrap(result).err.first_setting,
                         unwrap(result).err.second_setting} \subseteq ValidStrings(fidx)
                ELSE /\ unwrap(result).err.kind = "ParseFieldError"
                     /\ unwrap(result).err.field_name = decl[fidx].ident

\* str1 has THING1=5 and THING2=6, obj2 and option could not be parsed
\* either: the error is str1's, and THING3 and THING4 were never read
C25_Witness ==
    /\ pc = "failed"
    /\ decl = Conf
    /\ fidx = 1
    /\ env["THING1"] = VarOk("5") /\ env["THING2"] = VarOk("6")
    /\ env["THING3"] = VarOk("x") /\ env["THING4"] = VarOk("")
    /\ FieldFails(2) /\ FieldFails(3)
    /\ reads = <<"THING1", "THING2">>
    /\ unwrap(result).err.kind = "InconsistentSetting"
    /\ unwrap(result).err.second_source = <<"Environment variable", "THING2">>

-----------------------------------------------------------------------------
(* Claims about the derived Partial of Configuration (checked under        *)
(* SpecConfiguration).                                                     *)

\* Configuration as its declaration reads
ConfigurationFields == <<"str1", "port", "height", "custom_struct", "optional_field">>
\* the fields whose declared type ends in the identifier Option
ConfigurationOptional == {"optional_field"}
ConfigurationRequired == {"str1", "port", "height", "custom_struct"}

\* every Partial Value and every Target in the state has exactly the fields
\* of the declaration
SameFields ==
    /\ Len(all_fields(decl)) = Len(ConfigurationFields)
    /\ Range(all_fields(decl)) = Range(ConfigurationFields)
    /\ DOMAIN base = Range(ConfigurationFields)
    /\ DOMAIN acc = Range(ConfigurationFields)
    /\ \A i \in 1..Len(chain) : DOMAIN chain[i] = Range(ConfigurationFields)
    /\ (pc = "built" /\ unwrap(result).ok) =>
          DOMAIN unwrap(result).val = Range(ConfigurationFields)

\* C15 as stated - the mapping between the Target's fields and the Partial
\* Value's fields is total and the fields appear in the same order in both.
C15_OrderPreserving ==
    /\ SameFields
    /\ all_fields(decl) = ConfigurationFields

\* C15 as amended - the mapping is total, one field for one field; in the
\* Partial Value the already-optional fields come first and the required
\* fields after them, each group in the order of the Target.
C15_TotalOptionalFirst ==
    /\ SameFields
    /\ all_fields(decl) = <<"optional_field", "str1", "port", "height", "custom_struct">>

\* a Configuration was built: it has the five fields, and the Partial Value
\* it was built from lists optional_field first although it is declared last
C15_Witness ==
    /\ pc = "built"
    /\ unwrap(result).ok
    /\ DOMAIN unwrap(result).val = Range(ConfigurationFields)
    /\ Last(Idents(decl)) = "optional_field"
    /\ Head(all_fields(decl)) = "optional_field"
    /\ Len(chain) = 2

\* the required fields that are absent after merging, in the order of the
\* declaration
AbsentRequired ==
    SelectSeq(ConfigurationFields,
              LAMBDA id : id \in ConfigurationRequired /\ acc[id] = None)

\* C20 - MissingFields has one entry per required field that is absent after
\* merging, where height: Height counts as required although Height is an
\* alias of Option<u64> and optional_field: Option<u64> is never counted;
\* sourcing Str1OnlySource alone into the default leaves port, height and
\* custom_struct missing: exactly 3.
C20_MissingCount ==
    pc = "built" =>
        /\ unwrap(result).ok <=> AbsentRequired = <<>>
        /\ ~unwrap(result).ok =>
             /\ unwrap(result).err.kind = "MissingFields"
             /\ Len(unwrap(result).err.required_fields) = Len(AbsentRequired)
             /\ unwrap(result).err.required_fields =
                  [i \in 1..Len(AbsentRequired) |-> [f0 |-> AbsentRequired[i]]]
        /\ (base = [id \in Range(ConfigurationFields) |-> None]
              /\ chain = <<Str1OnlySource.to_partial.val>>) =>
             unwrap(result) = Err([kind |-> "MissingFields",
                                   required_fields |-> <<[f0 |-> "port"],
                                                         [f0 |-> "height"],
                                                         [f0 |-> "custom_struct"]>>])

\* incomplete_config_fails_to_build: default().source(Str1OnlySource).build()
C20_Witness ==
    /\ pc = "built"
    /\ base = [id \in Range(ConfigurationFields) |-> None]
    /\ chain = <<Str1OnlySource.to_partial.val>>
    /\ acc["str1"] = Some("CustomStruct")
    /\ acc["optional_field"] = None
    /\ ~unwrap(result).ok
    /\ Len(unwrap(result).err.required_fields) = Len(<<"port", "height", "custom_struct">>)

\* where a field stands in the declaration of Configuration
DeclPos(id) == CHOOSE i \in 1..Len(ConfigurationFields) : ConfigurationFields[i] = id
\* the names MissingFields carries, and the message of the error
MissingNames ==
    [i \in 1..Len(unwrap(result).err.required_fields) |->
        unwrap(result).err.required_fields[i].f0]
Message == fmt(unwrap(result).err)

\* C21 - the list of MissingFields is ordered: it names exactly the absent
\* required fields, in the order of the Target's declaration and so each
\* once, and the message prints all of them, in that order, separated by
\* commas, in one message.
C21_MissingFieldsOrdered ==
    (pc = "built" /\ ~unwrap(result).ok) =>
        /\ Range(MissingNames) = {id \in ConfigurationRequired : acc[id] = None}
        /\ \A i, j \in 1..Len(MissingNames) :
             i < j => DeclPos(MissingNames[i]) < DeclPos(MissingNames[j])
        /\ Len(Message) = 2 * Len(MissingNames) + 1
        /\ Head(Message) = "The required fields ["
        /\ Last(Message) = "] were not specified in any of the configuration sources"
        /\ \A i \in 1..Len(MissingNames) : Message[2 * i] = MissingNames[i]
        /\ \A i \in 1..(Len(MissingNames) - 1) : Message[2 * i + 1] = ", "

\* only port and optional_field are set: the message is
\* "The required fields [str1, height, custom_struct] were not specified ..."
C21_Witness ==
    /\ pc = "built"
    /\ acc["port"] # None /\ acc["optional_field"] # None
    /\ ~unwrap(result).ok
    /\ MissingNames = <<"str1", "height", "custom_struct">>
    /\ Message = <<"The required fields [", "str1", ", ", "height", ", ", "custom_struct",
                   "] were not specified in any of the configuration sources">>

=============================================================================
